---- MODULE Spec2Model ----
(***************************************************************************)
(* SudoDev: the Agent's four-phase pipeline (REPRODUCE, LOCATE, FIX,       *)
(* VERIFY) over one Sandbox session, as a state machine (Spec), and the    *)
(* FeedbackLoop under any sequence of calls (FLSpec).                      *)
(*                                                                         *)
(* Strings that matter by length and by trimming (file contents, code) are *)
(* run-length encoded: a sequence of <<char, count>> runs, adjacent runs   *)
(* having different chars.  "ws" is a whitespace char, "(" stands for a    *)
(* char that makes the text unparsable, "a" and "b" are ordinary chars.    *)
(* Texts that matter by their tokens (issue text, the locate answer) are   *)
(* sequences of tokens; transcripts are sequences of lines.                *)
(***************************************************************************)
EXTENDS Integers, Sequences, FiniteSets, TLC

VARIABLES
    agent,             \* which Agent class runs: "core" or "legacy"
    issue,             \* issue_data: [instance_id, problem_statement]
    fs,                \* the sandbox filesystem: path -> content
    fs0,               \* the sandbox filesystem as the run found it
    pc,                \* position in Agent.run
    started,           \* sandbox.start() has returned
    exc,               \* the exception in flight, "none" when there is none
    retval,            \* the value run() is about to return
    result,            \* what the caller of run() got
    repro_output,      \* self.repro_output
    target_files,      \* self.target_files
    files,             \* local of _locate_files: the paths in the LLM's answer
    fix_idx,           \* the index of the for loop of _generate_fix
    original_content,  \* local of _generate_fix
    fixed_code,        \* local of _generate_fix
    code,              \* local of _reproduce_bug
    exit_code,         \* the exit code of the last script run
    output,            \* the output of the last script run
    fixed_any,         \* local of _generate_fix
    phases,            \* the phases entered, in order
    phase_ret,         \* what each phase returned
    trace,             \* every sandbox call and LLM call issued, in order
    fix_log,           \* what _generate_fix logged for each file it handled
    max_attempts,      \* FeedbackLoop.max_attempts
    attempts_history,  \* FeedbackLoop.attempts_history
    clock,             \* time.time()
    fl_op,             \* the FeedbackLoop method called last
    fl_arg,            \* its arguments
    fl_ret             \* what it returned

agentvars == <<agent, issue, fs, fs0, pc, started, exc, retval, result, repro_output,
               target_files, files, fix_idx, original_content, fixed_code, code,
               exit_code, output, fixed_any, phases, phase_ret, trace, fix_log>>

flvars == <<max_attempts, attempts_history, clock, fl_op, fl_arg, fl_ret>>

vars == <<agentvars, flvars>>

----------------------------------------------------------------------------
(* Bounds and program constants *)

MaxOutputLines == 1

MAX_FILE_CHARS == 32000
ReproTimeout == 30
VerifyTimeout == 30
\* run_command called without a timeout argument
NoTimeout == 0
MaxLocated == 3

repro_script == "reproduce_issue.py"
ReproCommand == <<"python", repro_script>>
VerifyCommand == <<"python", repro_script>>
FindCommand == <<"find", "/testbed">>

----------------------------------------------------------------------------
(* Run-length encoded strings *)

RECURSIVE StrLen(_)
StrLen(s) == IF s = <<>> THEN 0 ELSE Head(s)[2] + StrLen(Tail(s))

RECURSIVE LStrip(_)
LStrip(s) == IF s # <<>> /\ Head(s)[1] = "ws" THEN LStrip(Tail(s)) ELSE s

RECURSIVE RStrip(_)
RStrip(s) ==
    IF s # <<>> /\ s[Len(s)][1] = "ws" THEN RStrip(SubSeq(s, 1, Len(s) - 1)) ELSE s

Strip(s) == RStrip(LStrip(s))

\* Python truth of a str-or-None value: None and "" are both <<>> here
Falsy(s) == s = <<>>

Empty == <<>>
SmallA == << <<"a", 5>> >>
SmallA_ws == << <<"a", 5>>, <<"ws", 1>> >>
SmallB == << <<"b", 5>> >>
BadCode == << <<"(", 1>>, <<"b", 4>> >>
AtLimit == << <<"ws", 1>>, <<"a", MAX_FILE_CHARS - 1>> >>
OverLimit == << <<"a", MAX_FILE_CHARS + 1>> >>
Huge == << <<"b", MAX_FILE_CHARS + 8000>> >>

----------------------------------------------------------------------------
(* sudodev.core.tools *)

\* the code of the first fenced block tagged python, "" when there is none
RECURSIVE extract_python_code(_)
extract_python_code(response) ==
    IF response = <<>> THEN Empty
    ELSE IF Head(response).tag = "python" THEN Head(response).code
    ELSE extract_python_code(Tail(response))

\* parses without executing: the empty module parses
validate_python_code(text) == \A i \in 1..Len(text) : text[i][1] # "("

Lines == {"ok", "TypeError: unsupported operand", "FAILED test_issue"}

IsErrorMarker(line) == line \in {"TypeError: unsupported operand", "FAILED test_issue"}

extract_error_messages(transcript) == SelectSeq(transcript, IsErrorMarker)

Paths == {"app/models.py", "app/views.py", "app/urls.py", "app/forms.py"}

IsPathLike(token) == token \in Paths \cup {repro_script}

RECURSIVE Unique(_)
Unique(s) ==
    IF s = <<>> THEN <<>>
    ELSE LET rest == Unique(SubSeq(s, 1, Len(s) - 1))
             last == s[Len(s)]
         IN IF \E i \in 1..Len(rest) : rest[i] = last THEN rest ELSE Append(rest, last)

\* path-like tokens, in order of first occurrence, duplicates removed
extract_file_paths(text) == Unique(SelectSeq(text, IsPathLike))

----------------------------------------------------------------------------
(* Inputs *)

RECURSIVE SeqsUpTo(_, _)
SeqsUpTo(S, n) ==
    IF n = 0 THEN {<<>>}
    ELSE LET shorter == SeqsUpTo(S, n - 1)
         IN shorter \cup {Append(s, x) : s \in {t \in shorter : Len(t) = n - 1}, x \in S}

Outputs == SeqsUpTo(Lines, MaxOutputLines)

ExitCodes == {0, 1}

Block(tag, body) == [tag |-> tag, code |-> body]

\* what the LLM may answer when asked for code
CodeResponses ==
    { << Block("prose", Empty) >>,
      << Block("prose", Empty), Block("python", SmallA_ws) >>,
      << Block("js", BadCode), Block("python", SmallB) >>,
      << Block("python", BadCode) >>,
      << Block("python", Empty) >> }

\* what the LLM may answer when asked for files
LocateResponses ==
    { << "word" >>,
      << "app/views.py", "word", "app/views.py" >>,
      << "reproduce_issue.py", "app/urls.py" >>,
      << "app/forms.py", "app/urls.py", "app/views.py", "app/models.py" >> }

IssueTexts ==
    { << "word" >>,
      << "word", "app/models.py" >>,
      << "app/models.py", "word", "app/views.py", "app/models.py" >>,
      << "app/models.py", "app/views.py", "app/urls.py", "app/forms.py" >> }

FileSystems ==
    { [p \in Paths \cup {repro_script} |->
          CASE p = "app/models.py" -> m
            [] p = "app/views.py" -> v
            [] p = "app/urls.py" -> SmallA
            [] p = "app/forms.py" -> Huge
            [] OTHER -> Empty] :
      m \in {SmallA, AtLimit, OverLimit}, v \in {SmallB, Empty} }

\* every exception the collaborators raise is an Exception subclass
StartRaisable == {"SandboxStartError", "RuntimeError"}

Raisable == {"RuntimeError"}

PhaseOrder == <<"REPRODUCE", "LOCATE", "FIX", "VERIFY">>

Event(op, phase, arg, timeout, data) ==
    [op |-> op, phase |-> phase, arg |-> arg, timeout |-> timeout, data |-> data]

----------------------------------------------------------------------------
(* Agent.__init__ *)

\* failed_line: None
NoLine == -1

\* the Agent constructs no FeedbackLoop
NoFeedbackLoop ==
    /\ max_attempts = 0
    /\ attempts_history = <<>>
    /\ clock = 0
    /\ fl_op = "none"
    /\ fl_arg = <<>>
    /\ fl_ret = <<>>

Init ==
    /\ agent \in {"core", "legacy"}
    /\ issue \in [instance_id : {"django__django-11001"}, problem_statement : IssueTexts]
    /\ fs \in FileSystems
    /\ fs0 = fs
    /\ pc = "start"
    /\ started = FALSE
    /\ exc = "none"
    /\ retval = "unset"
    /\ result = "pending"
    /\ repro_output = <<>>
    /\ target_files = <<>>
    /\ files = <<>>
    /\ fix_idx = 0
    /\ original_content = Empty
    /\ fixed_code = Empty
    /\ code = Empty
    /\ exit_code = 0
    /\ output = <<>>
    /\ fixed_any = FALSE
    /\ phases = <<>>
    /\ phase_ret = [p \in {"REPRODUCE", "LOCATE", "FIX", "VERIFY"} |-> "notrun"]
    /\ trace = <<>>
    /\ fix_log = <<>>
    /\ NoFeedbackLoop

----------------------------------------------------------------------------
(* FeedbackLoop *)

DEFAULT_MAX_ATTEMPTS == 3

\* the cap read as the last attempt allowed to retry
ShouldRetryInclusive(limit, current_attempt) == current_attempt <= limit

should_retry(limit, current_attempt) == current_attempt < limit

\* A transcript is a sequence of lines.  A line is one of
\*   "exc"     <name>: <msg>           (name is a word ending in Error)
\*   "mention" a line holding the word <name>, not followed by ": "
\*   "failed"  FAILED <msg>
\*   "line"    File "...", line <num>
\*   "text"    anything else
TLine(kind, name, msg, num) == [kind |-> kind, name |-> name, msg |-> msg, num |-> num]
ExcLine(name, msg) == TLine("exc", name, msg, NoLine)
MentionLine(name) == TLine("mention", name, "", NoLine)
FailedLine(msg) == TLine("failed", "", msg, NoLine)
NumberedLine(num) == TLine("line", "", "", num)
TextLine == TLine("text", "", "", NoLine)

\* the bounds of the FeedbackLoop's inputs
MaxHistory == 3
MaxConfigured == 4

\* code_applied[:500]
PreviewChars == 500

LongCode == << <<"a", 499>>, <<"b", 101>> >>

Transcripts ==
    { << ExcLine("TypeError", "unsupported operand") >>,
      << NumberedLine(12), ExcLine("NameError", "x is not defined"), NumberedLine(30) >>,
      << TextLine >>,
      << TextLine, NumberedLine(7) >>,
      << FailedLine("test_issue") >>,
      << MentionLine("TypeError") >>,
      << ExcLine("OperationalError", "Django settings") >> }

\* the arguments add_attempt is called with
AttemptInputs ==
    { [attempt_num |-> 1, file_path |-> "app/models.py", code_applied |-> SmallA,
       error_output |-> << ExcLine("TypeError", "unsupported operand") >>, success |-> FALSE],
      [attempt_num |-> 2, file_path |-> "app/models.py", code_applied |-> LongCode,
       error_output |-> << ExcLine("TypeError", "unsupported operand") >>, success |-> FALSE],
      [attempt_num |-> 1, file_path |-> "app/views.py", code_applied |-> SmallB,
       error_output |-> << TextLine >>, success |-> TRUE],
      [attempt_num |-> 2, file_path |-> "app/views.py", code_applied |-> SmallB,
       error_output |-> << MentionLine("TypeError") >>, success |-> FALSE] }

\* s[:n]
RECURSIVE Take(_, _)
Take(s, n) ==
    IF s = <<>> \/ n <= 0 THEN <<>>
    ELSE IF Head(s)[2] <= n
         THEN << Head(s) >> \o Take(Tail(s), n - Head(s)[2])
         ELSE << <<Head(s)[1], n>> >>

\* the whole code kept in the record
PreviewWhole(code_applied) == code_applied

Preview(code_applied) == Take(code_applied, PreviewChars)

add_attempt(history, attempt_num, file_path, code_applied, error_output, success, now) ==
    Append(history,
           [attempt |-> attempt_num,
            file_path |-> file_path,
            code_applied |-> Preview(code_applied),
            error_output |-> error_output,
            success |-> success,
            timestamp |-> now])

\* re.search: the first of the lines a pattern matches, 0 when there is none
FirstMatch(matching) ==
    IF matching = {} THEN 0
    ELSE CHOOSE i \in matching : \A j \in matching : i <= j

\* a pattern without the ": message" part
ExceptionMatchBareName(l) == l.kind \in {"exc", "mention"}

\* (\w+Error): (.+)
ExceptionMatch(l) == l.kind = "exc"

\* AssertionError: (.+)
AssertionMatch(l) == l.kind = "exc" /\ l.name = "AssertionError"

\* FAILED (.+)
FailureMatch(l) == l.kind = "failed"

\* line (\d+)
LineMatch(l) == l.kind = "line"

\* word in text
Occurs(word, transcript) ==
    \E i \in 1..Len(transcript) :
        transcript[i].kind \in {"exc", "mention"} /\ transcript[i].name = word

SameErrorRepeating == "CRITICAL: Same error repeating - try a different approach"

TypeSuggestion(error_type, error_message) ==
    CASE error_type = "NameError" ->
            << "Check for undefined variables or missing imports" >>
      [] error_type = "AttributeError" ->
            << "Verify object has the expected attributes/methods" >>
      [] error_type = "TypeError" ->
            << "Check function arguments and type compatibility" >>
      [] error_type \in {"ImportError", "ModuleNotFoundError"} ->
            << "Verify import paths and module availability" >>
      [] error_type = "SyntaxError" ->
            << "Review code syntax and indentation" >>
      [] error_type = "AssertionError" ->
            << "The fix didn't achieve expected behavior - review logic" >>
      [] OTHER ->
            IF error_message \in {"Django settings"}
            THEN << "Ensure Django settings are properly configured" >>
            ELSE <<>>

\* the history must hold more than one attempt before the last is compared
HistoryLongEnough(history) == Len(history) > 1

generate_suggestions(history, error_type, error_message) ==
    TypeSuggestion(error_type, error_message) \o
    ( IF HistoryLongEnough(history) /\ Occurs(error_type, history[Len(history)].error_output)
      THEN << SameErrorRepeating >>
      ELSE <<>> )

analyze_errors(history, transcript) ==
    LET e == FirstMatch({i \in 1..Len(transcript) : ExceptionMatch(transcript[i])})
        a == FirstMatch({i \in 1..Len(transcript) : AssertionMatch(transcript[i])})
        f == FirstMatch({i \in 1..Len(transcript) : FailureMatch(transcript[i])})
        n == FirstMatch({i \in 1..Len(transcript) : LineMatch(transcript[i])})
        error_type == IF e > 0 THEN transcript[e].name
                      ELSE IF a > 0 THEN "AssertionError"
                      ELSE IF f > 0 THEN "TestFailure"
                      ELSE "None"
        error_message == IF e > 0 THEN transcript[e].msg
                         ELSE IF a > 0 THEN transcript[a].msg
                         ELSE IF f > 0 THEN transcript[f].msg
                         ELSE "None"
    IN [error_type |-> error_type,
        error_message |-> error_message,
        failed_line |-> IF n > 0 THEN transcript[n].num ELSE NoLine,
        suggestions |-> IF error_type # "None"
                        THEN generate_suggestions(history, error_type, error_message)
                        ELSE <<>>]

\* self.attempts_history[-2:]
LastTwo(history) ==
    SubSeq(history, IF Len(history) > 2 THEN Len(history) - 1 ELSE 1, Len(history))

\* the parts of the prompt that vary: the analysis as printed and the digest
\* of the last attempts (each with the last line of its transcript)
build_retry_prompt(history, file_path, file_content, current_error) ==
    LET analysis == analyze_errors(history, current_error)
        recent == LastTwo(history)
    IN [file_path |-> file_path,
        file_content |-> Take(file_content, 10000),
        error_type |-> IF analysis.error_type = "None" THEN "Unknown" ELSE analysis.error_type,
        error_message |-> IF analysis.error_message = "None" THEN "See above"
                          ELSE analysis.error_message,
        failed_line |-> IF analysis.failed_line = 0 THEN NoLine ELSE analysis.failed_line,
        suggestions |-> analysis.suggestions,
        previous |-> Len(history),
        attempts |-> [i \in 1..Len(recent) |->
                         [attempt |-> recent[i].attempt,
                          brief_error |-> IF recent[i].error_output = <<>> THEN TextLine
                                          ELSE recent[i].error_output[Len(recent[i].error_output)]]]]

get_summary(history) ==
    IF history = <<>> THEN << "No attempts made yet" >>
    ELSE [i \in 1..Len(history) |->
             [status |-> IF history[i].success THEN "ok" ELSE "failed",
              attempt |-> history[i].attempt,
              file_path |-> history[i].file_path]]

----------------------------------------------------------------------------
(* Agent.run: the control flow around the phases *)

\* the number of passes through the FIX phase so far
FixAttempts == Len(SelectSeq(phases, LAMBDA p : p = "FIX"))

\* a handler written for the sandbox's own error only
CatchesSandboxErrorOnly(e) == e = "SandboxStartError"

\* except Exception: every Exception subclass is caught
Catches(e) == e \in {"SandboxStartError", "RuntimeError", "ModuleNotFoundError"}

\* the first position of the phase that follows
NextPhase(phase) ==
    CASE phase = "REPRODUCE" -> "locate"
      [] phase = "LOCATE" -> "fix"
      [] phase = "FIX" -> "verify"

\* run() leaving at once on a failed phase, around the finally clause
RunStepSkipsCleanup(phase, r) ==
    IF phase = "VERIFY"
    THEN [pc |-> "finally", retval |-> IF r THEN "True" ELSE "False"]
    ELSE IF r
    THEN [pc |-> NextPhase(phase), retval |-> "unset"]
    ELSE [pc |-> "done", retval |-> "False"]

\* run() going on to FIX although LOCATE found nothing
RunStepIgnoresLocate(phase, r) ==
    IF phase = "VERIFY"
    THEN [pc |-> "finally", retval |-> IF r THEN "True" ELSE "False"]
    ELSE IF r \/ phase = "LOCATE"
    THEN [pc |-> NextPhase(phase), retval |-> "unset"]
    ELSE [pc |-> "finally", retval |-> "False"]

\* run() going back to FIX while the Feedback Loop allows a retry
RunStepRetries(phase, r) ==
    IF phase = "VERIFY"
    THEN IF ~r /\ should_retry(DEFAULT_MAX_ATTEMPTS, FixAttempts)
         THEN [pc |-> "fix", retval |-> "unset"]
         ELSE [pc |-> "finally", retval |-> IF r THEN "True" ELSE "False"]
    ELSE IF r
    THEN [pc |-> NextPhase(phase), retval |-> "unset"]
    ELSE [pc |-> "finally", retval |-> "False"]

\* where run() goes when a phase has returned r: "if not phase(): return False"
\* for the first three, "return self._verify_fix()" for the last
RunStep(phase, r) ==
    IF phase = "VERIFY"
    THEN [pc |-> "finally", retval |-> IF r THEN "True" ELSE "False"]
    ELSE IF r
    THEN [pc |-> NextPhase(phase), retval |-> "unset"]
    ELSE [pc |-> "finally", retval |-> "False"]

Return(phase, r) ==
    /\ phase_ret' = [phase_ret EXCEPT ![phase] = IF r THEN "true" ELSE "false"]
    /\ pc' = RunStep(phase, r).pc
    /\ retval' = RunStep(phase, r).retval
    /\ exc' = exc

\* an exception leaves the phase and reaches the except clause of run()
RaiseIn(phase, e) ==
    /\ phase_ret' = [phase_ret EXCEPT ![phase] = "raised"]
    /\ pc' = "except"
    /\ exc' = e
    /\ retval' = retval

Enter(phase) == phases' = Append(phases, phase)

Goto(label) == pc' = label /\ UNCHANGED <<phase_ret, exc, retval>>

Call(op, phase, arg, timeout, data) ==
    trace' = Append(trace, Event(op, phase, arg, timeout, data))

\* start() wrapped so that its failure is swallowed and the run goes on
StartSwallowsFailure ==
    /\ pc = "start"
    /\ agent = "core"
    /\ Call("start", "INIT", <<>>, NoTimeout, Empty)
    /\ \/ started' = TRUE
       \/ started' = started
    /\ pc' = "repro_tree"
    /\ UNCHANGED <<files, fs0, flvars>>
    /\ UNCHANGED <<agent, issue, fs, exc, retval, result, repro_output, target_files,
                   fix_idx, original_content, fixed_code, code, exit_code, output,
                   fixed_any, phases, phase_ret, fix_log>>

Start ==
    /\ pc = "start"
    /\ agent = "core"
    /\ Call("start", "INIT", <<>>, NoTimeout, Empty)
    /\ \/ /\ started' = TRUE
          /\ pc' = "repro_tree"
          /\ exc' = exc
       \/ /\ \E e \in StartRaisable : exc' = e
          /\ pc' = "except"
          /\ started' = started
    /\ UNCHANGED <<files, fs0, flvars>>
    /\ UNCHANGED <<agent, issue, fs, retval, result, repro_output, target_files,
                   fix_idx, original_content, fixed_code, code, exit_code, output,
                   fixed_any, phases, phase_ret, fix_log>>

\* the Agent of src/sudodev/agent.py: start(), then nothing
LegacyStart ==
    /\ pc = "start"
    /\ agent = "legacy"
    /\ Call("start", "INIT", <<>>, NoTimeout, Empty)
    /\ \/ /\ started' = TRUE
          /\ pc' = "finally"
          /\ retval' = "None"
          /\ exc' = exc
       \/ /\ \E e \in StartRaisable : exc' = e
          /\ pc' = "except"
          /\ started' = started
          /\ retval' = retval
    /\ UNCHANGED <<files, fs0, flvars>>
    /\ UNCHANGED <<agent, issue, fs, result, repro_output, target_files,
                   fix_idx, original_content, fixed_code, code, exit_code, output,
                   fixed_any, phases, phase_ret, fix_log>>

\* what the except clause makes run() return
HandlerValue(kind) == IF kind = "core" THEN "False" ELSE "None"

Except ==
    /\ pc = "except"
    /\ IF Catches(exc)
       THEN exc' = "none" /\ retval' = HandlerValue(agent)
       ELSE exc' = exc /\ retval' = retval
    /\ pc' = "finally"
    /\ UNCHANGED <<files, fs0, flvars>>
    /\ UNCHANGED <<agent, issue, fs, started, result, repro_output, target_files,
                   fix_idx, original_content, fixed_code, code, exit_code, output,
                   fixed_any, phases, phase_ret, trace, fix_log>>

\* finally: self.sandbox.cleanup(), which does not throw; then run() is left
Finally ==
    /\ pc = "finally"
    /\ Call("cleanup", "END", <<>>, NoTimeout, Empty)
    /\ pc' = "done"
    /\ result' = IF exc = "none" THEN retval ELSE "raised"
    /\ UNCHANGED <<files, fs0, flvars>>
    /\ UNCHANGED <<agent, issue, fs, started, exc, retval, repro_output,
                   target_files, fix_idx, original_content, fixed_code, code,
                   exit_code, output, fixed_any, phases, phase_ret, fix_log>>

----------------------------------------------------------------------------
(* Agent._reproduce_bug *)

\* the exit code alone
ReproduceDecisionExitOnly(ec, out) == ec # 0

\* reproduced: a non-zero exit, or error messages in the output
ReproduceDecision(ec, out) == ec # 0 \/ extract_error_messages(out) # <<>>

\* _get_file_tree(max_files=100); its result only feeds the prompt
ReproTree ==
    /\ pc = "repro_tree"
    /\ Enter("REPRODUCE")
    /\ Call("run_command", "REPRODUCE", FindCommand, NoTimeout, Empty)
    /\ \/ Goto("repro_llm")
       \/ \E e \in Raisable : RaiseIn("REPRODUCE", e)
    /\ UNCHANGED <<files, fs0, flvars>>
    /\ UNCHANGED <<agent, issue, fs, started, result, repro_output, target_files,
                   fix_idx, original_content, fixed_code, code, exit_code, output,
                   fixed_any, fix_log>>

ReproLLM ==
    /\ pc = "repro_llm"
    /\ Call("llm", "REPRODUCE", <<>>, NoTimeout, Empty)
    /\ \/ \E response \in CodeResponses :
            LET c == extract_python_code(response)
            IN /\ code' = c
               /\ IF validate_python_code(c)
                  THEN Goto("repro_write")
                  ELSE Return("REPRODUCE", FALSE)
       \/ /\ code' = code
          /\ \E e \in Raisable : RaiseIn("REPRODUCE", e)
    /\ UNCHANGED <<files, fs0, flvars>>
    /\ UNCHANGED <<agent, issue, fs, started, result, repro_output, target_files,
                   fix_idx, original_content, fixed_code, exit_code, output,
                   fixed_any, phases, fix_log>>

ReproWrite ==
    /\ pc = "repro_write"
    /\ Call("write_file", "REPRODUCE", <<repro_script>>, NoTimeout, code)
    /\ \/ /\ fs' = [fs EXCEPT ![repro_script] = code]
          /\ Goto("repro_run")
       \/ /\ fs' = fs
          /\ \E e \in Raisable : RaiseIn("REPRODUCE", e)
    /\ UNCHANGED <<files, fs0, flvars>>
    /\ UNCHANGED <<agent, issue, started, result, repro_output, target_files,
                   fix_idx, original_content, fixed_code, code, exit_code, output,
                   fixed_any, phases, fix_log>>

ReproRun ==
    /\ pc = "repro_run"
    /\ Call("run_command", "REPRODUCE", ReproCommand, ReproTimeout, Empty)
    /\ \/ \E ec \in ExitCodes, out \in Outputs :
            /\ exit_code' = ec
            /\ output' = out
            /\ repro_output' = IF ReproduceDecision(ec, out) THEN out ELSE repro_output
            /\ Return("REPRODUCE", ReproduceDecision(ec, out))
       \/ /\ UNCHANGED <<exit_code, output, repro_output>>
          /\ \E e \in Raisable : RaiseIn("REPRODUCE", e)
    /\ UNCHANGED <<files, fs0, flvars>>
    /\ UNCHANGED <<agent, issue, fs, started, result, target_files, fix_idx,
                   original_content, fixed_code, code, fixed_any, phases, fix_log>>

----------------------------------------------------------------------------
(* Agent._locate_files *)

\* files[:3]
Truncate(found) ==
    SubSeq(found, 1, IF Len(found) < MaxLocated THEN Len(found) ELSE MaxLocated)

\* a heuristic trusted only when it names several files
UseHeuristicIfSeveral(potential_files) == Len(potential_files) > 1

\* if potential_files:
UseHeuristic(potential_files) == potential_files # <<>>

Locate ==
    /\ pc = "locate"
    /\ Enter("LOCATE")
    /\ LET potential_files == extract_file_paths(issue.problem_statement)
       IN IF UseHeuristic(potential_files)
          THEN target_files' = potential_files /\ Return("LOCATE", TRUE)
          ELSE target_files' = target_files /\ Goto("locate_tree")
    /\ UNCHANGED <<files, fs0, flvars>>
    /\ UNCHANGED <<agent, issue, fs, started, result, repro_output, fix_idx,
                   original_content, fixed_code, code, exit_code, output,
                   fixed_any, trace, fix_log>>

\* _get_file_tree(max_files=150)
LocateTree ==
    /\ pc = "locate_tree"
    /\ Call("run_command", "LOCATE", FindCommand, NoTimeout, Empty)
    /\ \/ Goto("locate_llm")
       \/ \E e \in Raisable : RaiseIn("LOCATE", e)
    /\ UNCHANGED <<files, fs0, flvars>>
    /\ UNCHANGED <<agent, issue, fs, started, result, repro_output, target_files,
                   fix_idx, original_content, fixed_code, code, exit_code, output,
                   fixed_any, phases, fix_log>>

LocateLLM ==
    /\ pc = "locate_llm"
    /\ \/ /\ trace' = trace  \* from sudodev.tools import ... fails
          /\ target_files' = target_files
          /\ files' = files
          /\ RaiseIn("LOCATE", "ModuleNotFoundError")
       \/ /\ Call("llm", "LOCATE", <<>>, NoTimeout, Empty)
          /\ \E response \in LocateResponses :
               /\ files' = extract_file_paths(response)
               /\ IF files' # <<>>
                  THEN target_files' = Truncate(files') /\ Return("LOCATE", TRUE)
                  ELSE target_files' = target_files /\ Return("LOCATE", FALSE)
       \/ /\ Call("llm", "LOCATE", <<>>, NoTimeout, Empty)
          /\ target_files' = target_files
          /\ files' = files
          /\ \E e \in Raisable : RaiseIn("LOCATE", e)
    /\ UNCHANGED <<fs0, flvars>>
    /\ UNCHANGED <<agent, issue, fs, started, result, repro_output, fix_idx,
                   original_content, fixed_code, code, exit_code, output,
                   fixed_any, phases, fix_log>>

----------------------------------------------------------------------------
(* Agent._generate_fix *)

\* the limit taken as exclusive
TooLargeInclusive(content) == StrLen(content) >= MAX_FILE_CHARS

TooLarge(content) == StrLen(content) > MAX_FILE_CHARS

\* what the loop body does with the content it read
ReadVerdict(content) ==
    IF Falsy(content) THEN "unreadable"
    ELSE IF TooLarge(content) THEN "too_large"
    ELSE "proceed"

\* the comparison without trimming
FixVerdictNoTrim(original, fixed) ==
    IF Falsy(fixed) THEN "no_code"
    ELSE IF ~validate_python_code(fixed) THEN "invalid"
    ELSE IF fixed = original THEN "unchanged"
    ELSE "write"

\* what the loop body does with the code it extracted
FixVerdict(original, fixed) ==
    IF Falsy(fixed) THEN "no_code"
    ELSE IF ~validate_python_code(fixed) THEN "invalid"
    ELSE IF Strip(fixed) = Strip(original) THEN "unchanged"
    ELSE "write"

\* break instead of continue: the loop ends at the first skipped file
Break(idx) == Len(target_files) + 1

\* continue: on to the next file
Continue(idx) == idx + 1

LogEntry(path, original, fixed, outcome) ==
    [path |-> path, orig |-> original, code |-> fixed, outcome |-> outcome]

FixEnter ==
    /\ pc = "fix"
    /\ Enter("FIX")
    /\ fixed_any' = FALSE
    /\ fix_idx' = 1
    /\ Goto("fix_next")
    /\ UNCHANGED <<files, fs0, flvars>>
    /\ UNCHANGED <<agent, issue, fs, started, result, repro_output, target_files,
                   original_content, fixed_code, code, exit_code, output, trace,
                   fix_log>>

FixRead ==
    /\ pc = "fix_next"
    /\ fix_idx <= Len(target_files)
    /\ LET filepath == target_files[fix_idx]
           content == fs[filepath]
       IN /\ Call("read_file", "FIX", <<filepath>>, NoTimeout, Empty)
          /\ \/ /\ original_content' = content
                /\ IF ReadVerdict(content) = "proceed"
                   THEN /\ Goto("fix_llm")
                        /\ UNCHANGED <<fix_idx, fix_log>>
                   ELSE /\ fix_log' = Append(fix_log,
                               LogEntry(filepath, content, Empty, ReadVerdict(content)))
                        /\ fix_idx' = Continue(fix_idx)
                        /\ Goto("fix_next")
             \/ /\ UNCHANGED <<original_content, fix_idx, fix_log>>
                /\ \E e \in Raisable : RaiseIn("FIX", e)
    /\ UNCHANGED <<files, fs0, flvars>>
    /\ UNCHANGED <<agent, issue, fs, started, result, repro_output, target_files,
                   fixed_code, code, exit_code, output, fixed_any, phases>>

FixLLM ==
    /\ pc = "fix_llm"
    /\ LET filepath == target_files[fix_idx]
       IN /\ Call("llm", "FIX", <<filepath>>, NoTimeout, Empty)
          /\ \/ \E response \in CodeResponses :
                  LET fixed == extract_python_code(response)
                      verdict == FixVerdict(original_content, fixed)
                  IN /\ fixed_code' = fixed
                     /\ IF verdict = "write"
                        THEN /\ Goto("fix_write")
                             /\ UNCHANGED <<fix_idx, fix_log>>
                        ELSE /\ fix_log' = Append(fix_log,
                                    LogEntry(filepath, original_content, fixed, verdict))
                             /\ fix_idx' = Continue(fix_idx)
                             /\ Goto("fix_next")
             \/ /\ UNCHANGED <<fixed_code, fix_idx, fix_log>>
                /\ \E e \in Raisable : RaiseIn("FIX", e)
    /\ UNCHANGED <<files, fs0, flvars>>
    /\ UNCHANGED <<agent, issue, fs, started, result, repro_output, target_files,
                   original_content, code, exit_code, output, fixed_any, phases>>

FixWrite ==
    /\ pc = "fix_write"
    /\ LET filepath == target_files[fix_idx]
       IN /\ Call("write_file", "FIX", <<filepath>>, NoTimeout, fixed_code)
          /\ \/ /\ fs' = [fs EXCEPT ![filepath] = fixed_code]
                /\ fix_log' = Append(fix_log,
                       LogEntry(filepath, original_content, fixed_code, "written"))
                /\ fixed_any' = TRUE
                /\ fix_idx' = fix_idx + 1
                /\ Goto("fix_next")
             \/ /\ UNCHANGED <<fs, fix_log, fixed_any, fix_idx>>
                /\ \E e \in Raisable : RaiseIn("FIX", e)
    /\ UNCHANGED <<files, fs0, flvars>>
    /\ UNCHANGED <<agent, issue, started, result, repro_output, target_files,
                   original_content, fixed_code, code, exit_code, output, phases>>

\* the loop is over: return fixed_any
FixDone ==
    /\ pc = "fix_next"
    /\ fix_idx > Len(target_files)
    /\ Return("FIX", fixed_any)
    /\ UNCHANGED <<files, fs0, flvars>>
    /\ UNCHANGED <<agent, issue, fs, started, result, repro_output, target_files,
                   fix_idx, original_content, fixed_code, code, exit_code, output,
                   fixed_any, phases, trace, fix_log>>

----------------------------------------------------------------------------
(* Agent._verify_fix *)

\* the exit code alone
VerifyDecisionExitOnly(ec, out) == ec = 0

\* verified: a zero exit and no error messages in the output
VerifyDecision(ec, out) == ec = 0 /\ extract_error_messages(out) = <<>>

Verify ==
    /\ pc = "verify"
    /\ Enter("VERIFY")
    /\ Call("run_command", "VERIFY", VerifyCommand, VerifyTimeout, Empty)
    /\ \/ \E ec \in ExitCodes, out \in Outputs :
            /\ exit_code' = ec
            /\ output' = out
            /\ Return("VERIFY", VerifyDecision(ec, out))
       \/ /\ UNCHANGED <<exit_code, output>>
          /\ \E e \in Raisable : RaiseIn("VERIFY", e)
    /\ UNCHANGED <<files, fs0, flvars>>
    /\ UNCHANGED <<agent, issue, fs, started, result, repro_output, target_files,
                   fix_idx, original_content, fixed_code, code, fixed_any, fix_log>>

----------------------------------------------------------------------------

Next ==
    \/ Start
    \/ LegacyStart
    \/ ReproTree
    \/ ReproLLM
    \/ ReproWrite
    \/ ReproRun
    \/ Locate
    \/ LocateTree
    \/ LocateLLM
    \/ FixEnter
    \/ FixRead
    \/ FixLLM
    \/ FixWrite
    \/ FixDone
    \/ Verify
    \/ Except
    \/ Finally

Spec == Init /\ [][Next]_vars

\* the run is synchronous and every call returns or raises: a step that can be
\* taken is taken
FairSpec == Spec /\ WF_vars(Next)

----------------------------------------------------------------------------
(* A FeedbackLoop driven by any caller *)

\* no Agent runs beside the FeedbackLoop
AgentAbsent ==
    /\ agent = "core"
    /\ issue = [instance_id |-> "django__django-11001", problem_statement |-> << "word" >>]
    /\ fs = [p \in Paths \cup {repro_script} |-> Empty]
    /\ fs0 = fs
    /\ pc = "start"
    /\ started = FALSE
    /\ exc = "none"
    /\ retval = "unset"
    /\ result = "pending"
    /\ repro_output = <<>>
    /\ target_files = <<>>
    /\ files = <<>>
    /\ fix_idx = 0
    /\ original_content = Empty
    /\ fixed_code = Empty
    /\ code = Empty
    /\ exit_code = 0
    /\ output = <<>>
    /\ fixed_any = FALSE
    /\ phases = <<>>
    /\ phase_ret = [p \in {"REPRODUCE", "LOCATE", "FIX", "VERIFY"} |-> "notrun"]
    /\ trace = <<>>
    /\ fix_log = <<>>

\* FeedbackLoop.__init__
FLInit ==
    /\ AgentAbsent
    /\ max_attempts \in 0..MaxConfigured
    /\ attempts_history = <<>>
    /\ clock = 0
    /\ fl_op = "__init__"
    /\ fl_arg = <<>>
    /\ fl_ret = <<>>

Returned(op, arg, ret) ==
    /\ fl_op' = op
    /\ fl_arg' = arg
    /\ fl_ret' = ret

AddAttempt ==
    /\ Len(attempts_history) < MaxHistory
    /\ \E a \in AttemptInputs :
          /\ attempts_history' = add_attempt(attempts_history, a.attempt_num, a.file_path,
                                             a.code_applied, a.error_output, a.success, clock)
          /\ Returned("add_attempt", a, <<>>)
    /\ clock' = clock + 1
    /\ UNCHANGED <<max_attempts, agentvars>>

ShouldRetry ==
    /\ \E current_attempt \in -1..(MaxConfigured + 1) :
          Returned("should_retry", current_attempt,
                   should_retry(max_attempts, current_attempt))
    /\ UNCHANGED <<max_attempts, attempts_history, clock, agentvars>>

\* an analysis that files the transcript it was given
AnalyzeErrorsRecords ==
    /\ Len(attempts_history) < MaxHistory
    /\ \E transcript \in Transcripts :
          /\ Returned("analyze_errors", transcript,
                      analyze_errors(attempts_history, transcript))
          /\ attempts_history' = add_attempt(attempts_history, 0, "", Empty,
                                             transcript, FALSE, clock)
    /\ UNCHANGED <<max_attempts, clock, agentvars>>

AnalyzeErrors ==
    /\ \E transcript \in Transcripts :
          Returned("analyze_errors", transcript,
                   analyze_errors(attempts_history, transcript))
    /\ UNCHANGED <<max_attempts, attempts_history, clock, agentvars>>

BuildRetryPrompt ==
    /\ \E current_error \in Transcripts :
          Returned("build_retry_prompt", current_error,
                   build_retry_prompt(attempts_history, "app/models.py", SmallA,
                                      current_error))
    /\ UNCHANGED <<max_attempts, attempts_history, clock, agentvars>>

GetSummary ==
    /\ Returned("get_summary", <<>>, get_summary(attempts_history))
    /\ UNCHANGED <<max_attempts, attempts_history, clock, agentvars>>

FLNext ==
    \/ AddAttempt
    \/ ShouldRetry
    \/ AnalyzeErrors
    \/ BuildRetryPrompt
    \/ GetSummary

FLSpec == FLInit /\ [][FLNext]_vars

TypeOK ==
    /\ pc \in {"start", "repro_tree", "repro_llm", "repro_write", "repro_run",
               "locate", "locate_tree", "locate_llm", "fix", "fix_next",
               "fix_llm", "fix_write", "verify", "except", "finally", "done"}
    /\ result \in {"pending", "True", "False", "None", "raised"}

----------------------------------------------------------------------------
(* Reading the trace *)

SandboxOps == SelectSeq(trace, LAMBDA e : e.op # "llm")

CleanupCount == Len(SelectSeq(trace, LAMBDA e : e.op = "cleanup"))

PhaseIndex(phase) ==
    CASE phase = "INIT" -> 0
      [] phase = "REPRODUCE" -> 1
      [] phase = "LOCATE" -> 2
      [] phase = "FIX" -> 3
      [] phase = "VERIFY" -> 4
      [] phase = "END" -> 5

IsCommand(e) == e.op \in {"run_command", "read_file", "write_file"}

IsScriptRun(e, phase) ==
    e.op = "run_command" /\ e.phase = phase /\ e.arg # FindCommand

\* the paths _generate_fix has read, in order
FixReads ==
    LET reads == SelectSeq(trace, LAMBDA e : e.op = "read_file" /\ e.phase = "FIX")
    IN [i \in 1..Len(reads) |-> reads[i].arg[1]]

IsPrefix(s, t) == Len(s) <= Len(t) /\ \A i \in 1..Len(s) : s[i] = t[i]

Skipped == {"unreadable", "too_large", "no_code", "invalid", "unchanged"}

----------------------------------------------------------------------------
(* C1..C10 *)

\* C1: in every run, of either Agent class and whatever each phase does
\* (returns true, returns false, or start() or a phase raises),
\* sandbox.cleanup() is eventually invoked, is invoked exactly once, and is
\* the last sandbox operation of the run.
C1_CleanupOnceAndLast ==
    /\ [](CleanupCount <= 1)
    /\ [](CleanupCount = 1 =>
            /\ SandboxOps[Len(SandboxOps)].op = "cleanup"
            /\ pc = "done")
    /\ [](pc = "done" => CleanupCount = 1)
    /\ <>(pc = "done" /\ CleanupCount = 1)

C1_Witness ==
    /\ pc = "done"
    /\ phase_ret["FIX"] = "raised"
    /\ CleanupCount = 1
    /\ trace[Len(trace)].op = "cleanup"

\* C2: run() of the core Agent never lets an exception out: when start() or
\* a phase raises, the run ends with run() returning False, and whatever
\* happens the value run() returns is True or False.
C2_NeverPropagates ==
    agent = "core" =>
        /\ result \in {"pending", "True", "False"}
        /\ pc = "done" => result \in {"True", "False"} /\ exc = "none"
        /\ (pc = "done" /\ (~started \/ \E p \in DOMAIN phase_ret : phase_ret[p] = "raised"))
              => result = "False"

C2_Witness ==
    /\ agent = "core"
    /\ pc = "done"
    /\ phase_ret["VERIFY"] = "raised"
    /\ result = "False"

\* C3: the phases are entered in the order REPRODUCE, LOCATE, FIX, VERIFY,
\* each at most once, and only after every earlier phase returned true; once
\* a phase has returned false the run is on its way out with False and no
\* later phase issues an LLM call or a sandbox command, read or write; run()
\* returns True only if all four phases returned true.
C3_SequentialShortCircuit ==
    /\ IsPrefix(phases, PhaseOrder)
    /\ \A i \in 2..Len(phases) : phase_ret[PhaseOrder[i - 1]] = "true"
    /\ \A i \in 1..Len(trace) :
          trace[i].phase \in DOMAIN phase_ret =>
             /\ PhaseIndex(trace[i].phase) <= Len(phases)
             /\ \A j \in 1..(PhaseIndex(trace[i].phase) - 1) :
                   phase_ret[PhaseOrder[j]] = "true"
    /\ \A p \in DOMAIN phase_ret :
          phase_ret[p] = "false" =>
             /\ pc \in {"finally", "done"}
             /\ retval = "False"
             /\ pc = "done" => result = "False"
             /\ \A i \in 1..Len(trace) :
                   (IsCommand(trace[i]) \/ trace[i].op = "llm")
                      => PhaseIndex(trace[i].phase) <= PhaseIndex(p)
    /\ result = "True" => \A p \in DOMAIN phase_ret : phase_ret[p] = "true"

C3_Witness ==
    /\ pc = "done"
    /\ phase_ret["REPRODUCE"] = "true"
    /\ phase_ret["LOCATE"] = "false"
    /\ phase_ret["FIX"] = "notrun"
    /\ result = "False"

C5_LifecycleBrackets ==
    /\ Len(SelectSeq(trace, LAMBDA e : e.op = "start")) <= 1
    /\ CleanupCount <= 1
    /\ \A i \in 1..Len(trace) :
          /\ trace[i].op = "start" => i = 1
          /\ IsCommand(trace[i]) =>
                /\ started
                /\ trace[1].op = "start"
                /\ \A j \in 1..i : trace[j].op # "cleanup"

C5_Witness ==
    /\ pc = "done"
    /\ started
    /\ \E i \in 1..Len(trace) : trace[i].op = "write_file" /\ trace[i].phase = "FIX"
    /\ \E i \in 1..Len(trace) : IsScriptRun(trace[i], "VERIFY")

\* the reproduction script was run in REPRODUCE and the run returned; the
\* exit code and output in the state are still those of that run
ReproRunReturned ==
    /\ \E i \in 1..Len(trace) : IsScriptRun(trace[i], "REPRODUCE")
    /\ phase_ret["REPRODUCE"] \in {"true", "false"}
    /\ phase_ret["VERIFY"] \notin {"true", "false"}

\* C6: whenever the reproduction script was executed, _reproduce_bug returns
\* true if and only if the exit code is non-zero or extract_error_messages of
\* the output is non-empty, and false on a zero exit without a marker; when
\* it returns true the output is stored in repro_output.
C6_ReproduceOutcome ==
    ReproRunReturned =>
       /\ phase_ret["REPRODUCE"] = "true"
             <=> (exit_code # 0 \/ Len(extract_error_messages(output)) > 0)
       /\ phase_ret["REPRODUCE"] = "false"
             <=> (exit_code = 0 /\ Len(extract_error_messages(output)) = 0)
       /\ phase_ret["REPRODUCE"] = "true" => repro_output = output

C6_Witness ==
    /\ ReproRunReturned
    /\ exit_code = 0
    /\ Len(output) > 0
    /\ extract_error_messages(output) = output
    /\ phase_ret["REPRODUCE"] = "true"
    /\ repro_output = output

\* C7: _verify_fix returns true if and only if the exit code is zero and
\* extract_error_messages of the output is empty (a zero exit with markers and
\* any non-zero exit give false), and it runs the command REPRODUCE ran, under
\* the same timeout.
C7_VerifyOutcome ==
    /\ phase_ret["VERIFY"] \in {"true", "false"} =>
          (phase_ret["VERIFY"] = "true"
              <=> (exit_code = 0 /\ Len(extract_error_messages(output)) = 0))
    /\ LET repro_runs == SelectSeq(trace, LAMBDA e : IsScriptRun(e, "REPRODUCE"))
           verify_calls == SelectSeq(trace, LAMBDA e : e.phase = "VERIFY")
       IN /\ Len(verify_calls) <= 1
          /\ \A j \in 1..Len(verify_calls) :
                /\ IsScriptRun(verify_calls[j], "VERIFY")
                /\ Len(repro_runs) = 1
                /\ verify_calls[j].arg = repro_runs[1].arg
                /\ verify_calls[j].timeout = repro_runs[1].timeout

C7_Witness ==
    /\ phase_ret["VERIFY"] = "false"
    /\ exit_code = 0
    /\ Len(extract_error_messages(output)) > 0
    /\ \E i, j \in 1..Len(trace) :
          IsScriptRun(trace[i], "REPRODUCE") /\ IsScriptRun(trace[j], "VERIFY")

\* this step issues a write of target file p in the FIX phase
FixWriteIssued(p) ==
    /\ Len(trace') = Len(trace) + 1
    /\ trace'[Len(trace')].op = "write_file"
    /\ trace'[Len(trace')].phase = "FIX"
    /\ trace'[Len(trace')].arg = <<p>>

\* C8: in the FIX phase a write of a target file is issued only with code
\* that is non-empty, passed validation and differs, after trimming, from the
\* content the file has at that moment (its original content); a file whose
\* extracted code equals its original content after trimming is logged as
\* unchanged, keeps its content and is never written by the phase.
C8_WriteOnlyIfChanged ==
    /\ [][\A p \in Paths :
            FixWriteIssued(p) =>
               LET written == trace'[Len(trace')].data
               IN /\ ~Falsy(written)
                  /\ validate_python_code(written)
                  /\ Strip(written) # Strip(fs[p])
                  /\ fs[p] = original_content
                  /\ written = fixed_code]_vars
    /\ [](\A i \in 1..Len(fix_log) :
            LET entry == fix_log[i]
            IN /\ entry.outcome = "written" =>
                     /\ ~Falsy(entry.code)
                     /\ validate_python_code(entry.code)
                     /\ Strip(entry.code) # Strip(entry.orig)
                     /\ fs[entry.path] = entry.code
               /\ (entry.outcome \in {"unchanged", "written"}
                     /\ Strip(entry.code) = Strip(entry.orig)) =>
                     /\ entry.outcome = "unchanged"
                     /\ fs[entry.path] = entry.orig
                     /\ \A j \in 1..Len(trace) :
                           ~(/\ trace[j].op = "write_file"
                                /\ trace[j].phase = "FIX"
                                /\ trace[j].arg = <<entry.path>>))

C8_Witness ==
    \E i, j \in 1..Len(fix_log) :
       /\ fix_log[i].outcome = "unchanged"
       /\ fix_log[i].code # fix_log[i].orig
       /\ fix_log[j].outcome = "written"
       /\ fs[fix_log[j].path] = fix_log[j].code
       /\ fs[fix_log[i].path] = fix_log[i].orig

\* C9 as stated: however the FIX phase ends, every target file has been
\* processed, in order (an error raised while handling one file does not
\* abort the rest), and when _generate_fix returns, it returns true if and
\* only if some target file was written.
C9_EveryFileDespiteErrors ==
    /\ phase_ret["FIX"] # "notrun" => FixReads = target_files
    /\ phase_ret["FIX"] \in {"true", "false"} =>
          (phase_ret["FIX"] = "true"
              <=> \E i \in 1..Len(fix_log) : fix_log[i].outcome = "written")

\* C9 amended: a target file that is unreadable, oversized, yields no code,
\* invalid code or unchanged code is skipped and the loop goes on with the
\* next file: files are read in the order of target_files, and whenever
\* _generate_fix returns every target file has been processed and logged and
\* it returns true if and only if some target file was written.  An error
\* raised while handling a file is not local: it ends the phase, later files
\* are left unprocessed, VERIFY is not entered and run() returns False.
C9_EveryFileUnlessRaised ==
    /\ IsPrefix(FixReads, target_files)
    /\ \A i \in 1..Len(fix_log) : fix_log[i].path = target_files[i]
    /\ phase_ret["FIX"] \in {"true", "false"} =>
          /\ FixReads = target_files
          /\ Len(fix_log) = Len(target_files)
          /\ phase_ret["FIX"] = "true"
                <=> \E i \in 1..Len(fix_log) : fix_log[i].outcome = "written"
    /\ phase_ret["FIX"] = "raised" =>
          /\ pc \in {"except", "finally", "done"}
          /\ Len(fix_log) < Len(target_files)
          /\ Len(FixReads) = Len(fix_log) + 1
          /\ phase_ret["VERIFY"] = "notrun"
          /\ pc = "done" => result = "False"

C9_Witness ==
    /\ phase_ret["FIX"] = "true"
    /\ \E i, j \in 1..Len(fix_log) :
          /\ i < j
          /\ fix_log[i].outcome \in Skipped
          /\ fix_log[j].outcome = "written"

\* C10: a target file of more than 32,000 characters is skipped for size: no
\* completion is requested for it, it is never written and keeps its
\* content; the skip does not fail the phase, which returns true exactly when
\* some file was written; a file is skipped for size only above 32,000
\* characters, so one of exactly 32,000 goes on to the completion call.
C10_OversizedSkipped ==
    /\ \A i \in 1..Len(fix_log) :
          LET entry == fix_log[i]
          IN /\ entry.outcome = "too_large" <=> StrLen(entry.orig) > 32000
             /\ entry.outcome = "too_large" =>
                   /\ fs[entry.path] = entry.orig
                   /\ \A j \in 1..Len(trace) :
                         (trace[j].phase = "FIX" /\ trace[j].arg = <<entry.path>>)
                            => trace[j].op = "read_file"
    /\ pc \in {"fix_llm", "fix_write"} =>
          (StrLen(original_content) <= 32000 /\ original_content = fs[target_files[fix_idx]])
    /\ phase_ret["FIX"] \in {"true", "false"} =>
          (phase_ret["FIX"] = "true"
              <=> \E i \in 1..Len(fix_log) : fix_log[i].outcome = "written")

C10_Witness ==
    /\ phase_ret["FIX"] = "true"
    /\ \E i, j \in 1..Len(fix_log) :
          /\ fix_log[i].outcome = "too_large"
          /\ StrLen(fix_log[i].orig) = 40000
          /\ fix_log[j].outcome = "written"
          /\ StrLen(fix_log[j].orig) = 32000

----------------------------------------------------------------------------
(* C11..C20: the Agent *)

FixCompletions == SelectSeq(trace, LAMBDA e : e.op = "llm" /\ e.phase = "FIX")

\* C11: in every reachable state target_files holds at most 3 paths,
\* whether the issue text or the LLM's answer supplied them, and so the FIX
\* phase issues at most 3 completion calls.
C11_AtMostThreeTargets ==
    /\ Len(target_files) <= 3
    /\ Len(FixCompletions) <= 3

LocateEvents == SelectSeq(trace, LAMBDA e : e.phase = "LOCATE")

\* C12: in LOCATE the file listing and the completion call are issued only
\* when the issue text names no path; when it names one the phase returns
\* true with exactly those paths as targets and issues no call at all; and
\* the phase returns false exactly when neither the issue text nor the LLM's
\* answer names a path.
C12_FallbackOnlyWithoutPath ==
    LET potential_files == extract_file_paths(issue.problem_statement)
        ret == phase_ret["LOCATE"]
    IN /\ LocateEvents # <<>> => potential_files = <<>>
       /\ (potential_files # <<>> /\ ret # "notrun") =>
              /\ ret = "true"
              /\ target_files = potential_files
              /\ LocateEvents = <<>>
       /\ ret \in {"true", "false"} =>
              (ret = "false" <=> (potential_files = <<>> /\ files = <<>>))
       /\ (ret = "true" /\ potential_files = <<>>) =>
              /\ \E i \in 1..Len(LocateEvents) : LocateEvents[i].op = "llm"
              /\ target_files = Truncate(files)

\* LOCATE asked the LLM and its answer named no path
C12_Witness ==
    /\ phase_ret["LOCATE"] = "false"
    /\ \E i \in 1..Len(LocateEvents) : LocateEvents[i].op = "llm"
    /\ \E j \in 1..Len(LocateEvents) : LocateEvents[j].arg = FindCommand

Unusable(text) == Falsy(text) \/ ~validate_python_code(text)

\* C18: in REPRODUCE, when the code extracted from the model's answer is
\* empty or does not parse, the phase returns false and the script is neither
\* written nor run; whatever is written as the script is non-empty and parses.
C18_UnusableNeverWritten ==
    /\ \A i \in 1..Len(trace) :
          (trace[i].phase = "REPRODUCE" /\ trace[i].op = "write_file") =>
              ~Unusable(trace[i].data)
    /\ (pc \in {"repro_write", "repro_run"} \/ phase_ret["REPRODUCE"] \in {"true", "false"}) =>
          (Unusable(code) =>
              /\ phase_ret["REPRODUCE"] = "false"
              /\ \A i \in 1..Len(trace) :
                    trace[i].phase = "REPRODUCE" =>
                        /\ trace[i].op # "write_file"
                        /\ ~IsScriptRun(trace[i], "REPRODUCE"))

Writes == SelectSeq(trace, LAMBDA e : e.op = "write_file")

\* C20: over a whole run the Agent writes only the reproduction script, at
\* most once and in REPRODUCE, and target files, each at most once and in
\* FIX; a file it did not write, and a target it skipped, is as the run found
\* it; the script is not written again after REPRODUCE.
C20_WritesOnlyScriptAndTargets ==
    /\ \A i \in 1..Len(Writes) :
          IF Writes[i].arg = <<repro_script>>
          THEN Writes[i].phase = "REPRODUCE"
          ELSE /\ Writes[i].phase = "FIX"
               /\ \E k \in 1..Len(target_files) : Writes[i].arg = <<target_files[k]>>
    /\ \A i, j \in 1..Len(Writes) : i < j => Writes[i].arg # Writes[j].arg
    /\ \A p \in DOMAIN fs :
          (\A i \in 1..Len(Writes) : Writes[i].arg # <<p>>) => fs[p] = fs0[p]
    /\ \A k \in 1..Len(fix_log) :
          (fix_log[k].outcome \in Skipped /\ fix_log[k].path # repro_script) =>
              fs[fix_log[k].path] = fs0[fix_log[k].path]

----------------------------------------------------------------------------
(* C13..C17, C19: the FeedbackLoop *)

\* C13: for every integer n and every configured max_attempts,
\* should_retry(n) is true exactly when n < max_attempts (with the default 3:
\* true for 2, false for 3), and the call changes neither max_attempts nor
\* the attempt history.
C13_ShouldRetryIffBelowCap ==
    /\ [](fl_op = "should_retry" =>
            /\ fl_ret <=> (max_attempts - fl_arg > 0)
            /\ (max_attempts = 3 /\ fl_arg = 2) => fl_ret
            /\ (max_attempts = 3 /\ fl_arg = 3) => ~fl_ret)
    /\ [][fl_op' = "should_retry" =>
            /\ attempts_history' = attempts_history
            /\ max_attempts' = max_attempts]_vars

\* with the default cap and attempts on record, should_retry(3) said no
C13_Witness ==
    /\ fl_op = "should_retry"
    /\ max_attempts = DEFAULT_MAX_ATTEMPTS
    /\ fl_arg = 3
    /\ fl_ret = FALSE
    /\ attempts_history # <<>>

RecordsFor(path) ==
    Cardinality({i \in 1..Len(attempts_history) : attempts_history[i].file_path = path})

\* C14: after any sequence of FeedbackLoop operations the number of attempt
\* records held for any one file path is at most max_attempts.
C14_RecordsWithinCap ==
    \A i \in 1..Len(attempts_history) :
        RecordsFor(attempts_history[i].file_path) <= max_attempts

\* C15: analyze_errors is idempotent and pure: a call changes neither the
\* attempt history nor max_attempts, and a second call in a row with the same
\* transcript returns the same error kind, message, failing line and
\* suggestions as the first.
C15_AnalysisPure ==
    [][fl_op' = "analyze_errors" =>
          /\ attempts_history' = attempts_history
          /\ max_attempts' = max_attempts
          /\ (fl_op = "analyze_errors" /\ fl_arg' = fl_arg) => fl_ret' = fl_ret]_vars

\* an analysis whose suggestions were drawn from the history
C15_Witness ==
    /\ fl_op = "analyze_errors"
    /\ Len(attempts_history) >= 2
    /\ \E i \in 1..Len(fl_ret.suggestions) : fl_ret.suggestions[i] = SameErrorRepeating

\* C16: whenever the error kind found in the analysed transcript also occurs
\* in the transcript of the attempt recorded last, the analysis holds the
\* "same error repeating" suggestion; so it does when one attempt with a
\* TypeError is on record and a second transcript with a TypeError is analysed.
C16_RepeatFlagged ==
    (/\ fl_op = "analyze_errors"
     /\ attempts_history # <<>>
     /\ fl_ret.error_type # "None"
     /\ Occurs(fl_ret.error_type, attempts_history[Len(attempts_history)].error_output))
    => \E i \in 1..Len(fl_ret.suggestions) : fl_ret.suggestions[i] = SameErrorRepeating

Unclassified(transcript) ==
    \A i \in 1..Len(transcript) : transcript[i].kind \notin {"exc", "failed"}

\* C17 as stated: for a transcript matching none of the three classification
\* patterns the analysis is wholly null: kind, message and failing line are
\* null and there is no suggestion.
C17_WhollyNull ==
    (fl_op = "analyze_errors" /\ Unclassified(fl_arg)) =>
        /\ fl_ret.error_type = "None"
        /\ fl_ret.error_message = "None"
        /\ fl_ret.failed_line = NoLine
        /\ fl_ret.suggestions = <<>>

\* C17 amended: for a transcript matching none of the three classification
\* patterns the error kind and message are null and there is no suggestion;
\* the failing line is null only if the transcript holds no "line N" either,
\* and is otherwise the number of its first "line N".
C17_NullKindAndMessage ==
    (fl_op = "analyze_errors" /\ Unclassified(fl_arg)) =>
        /\ fl_ret.error_type = "None"
        /\ fl_ret.error_message = "None"
        /\ fl_ret.suggestions = <<>>
        /\ (\A i \in 1..Len(fl_arg) : fl_arg[i].kind # "line") => fl_ret.failed_line = NoLine
        /\ \A i \in 1..Len(fl_arg) :
              (fl_arg[i].kind = "line" /\ \A j \in 1..(i - 1) : fl_arg[j].kind # "line")
                  => fl_ret.failed_line = fl_arg[i].num

\* an unclassified transcript with a line number was analysed over a history
\* of two attempts
C17_Witness ==
    /\ fl_op = "analyze_errors"
    /\ Unclassified(fl_arg)
    /\ \E i \in 1..Len(fl_arg) : fl_arg[i].kind = "line"
    /\ Len(attempts_history) >= 2

\* C19: the attempt history is append-only: an add_attempt call makes it one
\* longer, puts the new record last with the arguments given and the applied
\* code cut to its first 500 characters at most, and leaves the earlier
\* records as they were; no other operation changes the history.
C19_AppendOnly ==
    [][IF fl_op' = "add_attempt"
       THEN LET n == Len(attempts_history)
                new == attempts_history'[n + 1]
                given == fl_arg'.code_applied
            IN /\ Len(attempts_history') = n + 1
               /\ SubSeq(attempts_history', 1, n) = attempts_history
               /\ new.attempt = fl_arg'.attempt_num
               /\ new.file_path = fl_arg'.file_path
               /\ new.error_output = fl_arg'.error_output
               /\ new.success = fl_arg'.success
               /\ StrLen(new.code_applied) <= 500
               /\ StrLen(given) <= 500 => new.code_applied = given
               /\ StrLen(given) > 500 =>
                     /\ StrLen(new.code_applied) = 500
                     /\ Take(given, 499) = Take(new.code_applied, 499)
       ELSE attempts_history' = attempts_history]_vars

\* a record of code longer than 500 characters was appended to a history
\* that already held one
C19_Witness ==
    /\ fl_op = "add_attempt"
    /\ StrLen(fl_arg.code_applied) > 500
    /\ Len(attempts_history) >= 2
    /\ StrLen(attempts_history[Len(attempts_history)].code_applied) = 500

====
